---- MODULE Spec2Model ----
(***************************************************************************)
(* Model of package fingerprint (src/fingerprint.go): the pure functions   *)
(* Compare, Distance, ToImage and ImageDistance over []int32 fingerprints. *)
(*                                                                         *)
(* An int32 is a TLA+ integer in MinInt32..MaxInt32.  Go's bit operators   *)
(* (^, &, >>) are modelled on the two's complement representation.         *)
(* A float64 is either NaN or an exact rational [num, den] with den > 0:   *)
(* every quotient formed by Compare has operands far below 2^53, so the    *)
(* conversions are exact and IEEE rounding keeps order and the values 0    *)
(* and 1.                                                                  *)
(* A Go string is a sequence of one-character strings.                     *)
(***************************************************************************)
EXTENDS Integers, Sequences, FiniteSets

VARIABLES fprint1, fprint2, op, ret

vars == <<fprint1, fprint2, op, ret>>

\* Longest fingerprint the model draws.
MaxLen == 2

bitsperint == 32

MaxInt32 == 2147483647
MinInt32 == -MaxInt32 - 1

\* Subfingerprints the inputs are drawn from: zero, a small value, all bits
\* set, and the sign bit alone.
Vals == {0, 15, -1, MinInt32}

RECURSIVE SeqsOfLen(_)
SeqsOfLen(n) ==
    IF n = 0 THEN {<< >>}
    ELSE {Append(s, v) : s \in SeqsOfLen(n - 1), v \in Vals}

Fingerprints == UNION {SeqsOfLen(n) : n \in 0..MaxLen}

--------------------------------------------------------------------------
(* int32 bit operators *)

\* Go's a ^ b on int32, by the two's complement representation: on a
\* signed integer x & 1 is x mod 2 and x >> 1 is floor division by 2, the
\* bits of 0 are all 0 and the bits of -1 are all 1 (x ^ -1 is the
\* complement -1 - x).
RECURSIVE Xor32(_, _)
Xor32(a, b) ==
    IF a = 0 THEN b
    ELSE IF b = 0 THEN a
    ELSE IF a = -1 THEN (-1) - b
    ELSE IF b = -1 THEN (-1) - a
    ELSE (((a % 2) + (b % 2)) % 2) + 2 * Xor32(a \div 2, b \div 2)

--------------------------------------------------------------------------
(* strconv.FormatInt(i, 2) and strings.Count *)

RECURSIVE FormatBits(_)
FormatBits(u) ==
    IF u < 2 THEN <<IF u = 1 THEN "1" ELSE "0">>
    ELSE Append(FormatBits(u \div 2), IF u % 2 = 1 THEN "1" ELSE "0")

\* strconv.FormatInt(int64(x), 2): the digits of the magnitude, behind a
\* minus sign when x is negative.  int64(x) keeps the value.  The magnitude
\* of MinInt32 is 2^31, so it is formatted as its upper digits
\* (-x) \div 2 = -((x + 1) \div 2) followed by its lowest digit.
FormatInt(x) ==
    IF x >= 0 THEN FormatBits(x)
    ELSE LET upper == -((x + 1) \div 2)
             low   == IF x % 2 = 1 THEN "1" ELSE "0"
         IN  <<"-">> \o (IF upper = 0 THEN << >> ELSE FormatBits(upper))
                     \o <<low>>

\* strings.Count(s, substr) for a one-character substr.
Count(s, substr) == Cardinality({k \in DOMAIN s : s[k] = substr})

\* A bug hamming could have: only the first operand is formatted.
hamming_first(a, b) == Count(FormatInt(a), "1")

hamming(a, b) == Count(FormatInt(Xor32(a, b)), "1")

--------------------------------------------------------------------------
(* float64 *)

NaN == [nan |-> TRUE, num |-> 0, den |-> 1]

Float(n, d) == [nan |-> FALSE, num |-> n, den |-> d]

\* float64(n) / float64(d): 0/0 is NaN; a nonzero dividend over 0 does not
\* occur in Compare (an empty fingerprint has distance 0).
FloatDiv(n, d) == IF d = 0 THEN NaN ELSE Float(n, d)

\* 1 - q
OneMinus(q) == IF q.nan THEN NaN ELSE Float(q.den - q.num, q.den)

\* IEEE comparisons: every comparison with NaN is false.
FloatEq(x, y) == ~x.nan /\ ~y.nan /\ x.num * y.den = y.num * x.den

FloatLe(x, y) == ~x.nan /\ ~y.nan /\ x.num * y.den <= y.num * x.den

--------------------------------------------------------------------------
(* The functions of the package.  A result carries the values the function *)
(* returns, and panic = TRUE when the call ends in a run-time panic (an     *)
(* index out of range) instead of returning.  A slice is nil or holds its  *)
(* elements; an image.Image is nil or a grid of gray pixels.               *)

Nil == "nil"

ErrLength == "ErrLength"

NilSlice == [nil |-> TRUE, elems |-> << >>]

Slice(elems) == [nil |-> FALSE, elems |-> elems]

NilImage == [nil |-> TRUE, w |-> 0, h |-> 0, pix |-> << >>]

\* for i, sub := range fprint1 { dist += hamming(sub, fprint2[i]) }
\* -1 when fprint2[i] is out of range.
RECURSIVE CompareLoop(_, _, _, _)
CompareLoop(f1, f2, i, dist) ==
    IF i > Len(f1) THEN dist
    ELSE IF i > Len(f2) THEN -1
    ELSE CompareLoop(f1, f2, i + 1, dist + hamming(f1[i], f2[i]))

\* A bug Compare could have: the divisor is the number of subfingerprints,
\* not the number of bits.
Compare_nobits(f1, f2) ==
    IF Len(f1) # Len(f2)
    THEN [score |-> Float(0, 1), err |-> ErrLength, panic |-> FALSE]
    ELSE LET dist == CompareLoop(f1, f2, 1, 0)
         IN  IF dist < 0
             THEN [score |-> Float(0, 1), err |-> Nil, panic |-> TRUE]
             ELSE [score |-> OneMinus(FloatDiv(dist, Len(f1))),
                   err |-> Nil, panic |-> FALSE]

Compare(f1, f2) ==
    IF Len(f1) # Len(f2)
    THEN [score |-> Float(0, 1), err |-> ErrLength, panic |-> FALSE]
    ELSE LET dist == CompareLoop(f1, f2, 1, 0)
         IN  IF dist < 0
             THEN [score |-> Float(0, 1), err |-> Nil, panic |-> TRUE]
             ELSE [score |-> OneMinus(FloatDiv(dist, Len(f1) * bitsperint)),
                   err |-> Nil, panic |-> FALSE]

\* dist := make([]int32, len(fprint1))
\* for i, sub := range fprint1 { dist[i] = sub ^ fprint2[i] }
DistanceLoop(f1, f2) ==
    IF Len(f1) > Len(f2)
    THEN [dist |-> NilSlice, err |-> Nil, panic |-> TRUE]
    ELSE [dist |-> Slice([i \in 1..Len(f1) |-> Xor32(f1[i], f2[i])]),
          err |-> Nil, panic |-> FALSE]

\* A bug Distance could have: no length check.
Distance_nocheck(f1, f2) == DistanceLoop(f1, f2)

\* A bug Distance could have: the element of fprint1 is stored instead of
\* the XOR.
Distance_noxor(f1, f2) ==
    IF Len(f1) # Len(f2)
    THEN [dist |-> NilSlice, err |-> ErrLength, panic |-> FALSE]
    ELSE [dist |-> Slice([i \in 1..Len(f1) |-> f1[i]]),
          err |-> Nil, panic |-> FALSE]

Distance(f1, f2) ==
    IF Len(f1) # Len(f2)
    THEN [dist |-> NilSlice, err |-> ErrLength, panic |-> FALSE]
    ELSE DistanceLoop(f1, f2)

\* The colours of color.Gray the package uses: Gray{0} and Gray{0xFF}.
Black == 0
White == 255

\* sub after j executions of sub >>= 1 (an arithmetic shift).
Shr(sub, j) == IF j < 31 THEN sub \div (2 ^ j) ELSE (sub \div (2 ^ 30)) \div 2

\* The colour im.Set(i, j, color.Gray{uint8(sub&1) * 0xFF}) stores in the
\* j-th pass of the inner loop.
GrayOf(sub, j) == (Shr(sub, j) % 2) * 255

\* A bug int32ToImage could have: the colours the other way round.
int32ToImage_inverted(s) ==
    [nil |-> FALSE, w |-> Len(s), h |-> bitsperint,
     pix |-> [i \in 0..(Len(s) - 1) |->
                [j \in 0..(bitsperint - 1) |-> 255 - GrayOf(s[i + 1], j)]]]

\* image.NewGray(image.Rect(0, 0, len(s), bitsperint)) with every pixel set
\* by the loops: pix[i][j] is the colour at column i, row j.
int32ToImage(s) ==
    [nil |-> FALSE, w |-> Len(s), h |-> bitsperint,
     pix |-> [i \in 0..(Len(s) - 1) |->
                [j \in 0..(bitsperint - 1) |-> GrayOf(s[i + 1], j)]]]

ToImage(fprint) == int32ToImage(fprint)

\* A bug ImageDistance could have: the image of the first fingerprint
\* instead of the image of the distance.
ImageDistance_first(f1, f2) ==
    IF Len(f1) # Len(f1)
    THEN [im |-> NilImage, err |-> ErrLength, panic |-> FALSE]
    ELSE LET d == Distance(f1, f2)
         IN  IF d.panic THEN [im |-> NilImage, err |-> Nil, panic |-> TRUE]
             ELSE IF d.err # Nil
             THEN [im |-> NilImage, err |-> d.err, panic |-> FALSE]
             ELSE [im |-> int32ToImage(f1), err |-> Nil, panic |-> FALSE]

\* The first test compares len(fprint1) with itself; the named result im is
\* still nil when Distance returns an error.
ImageDistance(f1, f2) ==
    IF Len(f1) # Len(f1)
    THEN [im |-> NilImage, err |-> ErrLength, panic |-> FALSE]
    ELSE LET d == Distance(f1, f2)
         IN  IF d.panic THEN [im |-> NilImage, err |-> Nil, panic |-> TRUE]
             ELSE IF d.err # Nil
             THEN [im |-> NilImage, err |-> d.err, panic |-> FALSE]
             ELSE [im |-> int32ToImage(d.dist.elems),
                   err |-> Nil, panic |-> FALSE]

-----
(* The state machine: two fingerprints owned by the caller, and the last   *)
(* call made on them with what it returned.                                *)

\* Before any call nothing has been returned.
NoResult == [err |-> Nil, panic |-> FALSE]

Init ==
    /\ fprint1 \in Fingerprints
    /\ fprint2 \in Fingerprints
    /\ op = "none"
    /\ ret = NoResult

CallCompare ==
    /\ op' = "Compare"
    /\ ret' = Compare(fprint1, fprint2)
    /\ UNCHANGED <<fprint1, fprint2>>

CallDistance ==
    /\ op' = "Distance"
    /\ ret' = Distance(fprint1, fprint2)
    /\ UNCHANGED <<fprint1, fprint2>>

CallToImage ==
    /\ op' = "ToImage"
    /\ ret' = [im |-> ToImage(fprint1), err |-> Nil, panic |-> FALSE]
    /\ UNCHANGED <<fprint1, fprint2>>

CallImageDistance ==
    /\ op' = "ImageDistance"
    /\ ret' = ImageDistance(fprint1, fprint2)
    /\ UNCHANGED <<fprint1, fprint2>>

Next ==
    \/ CallCompare
    \/ CallDistance
    \/ CallToImage
    \/ CallImageDistance

Spec == Init /\ [][Next]_vars

--------------------------------------------------------------------------
(* Two's complement arithmetic the claims are stated in, defined without   *)
(* the operators above.                                                    *)

Pow2(n) == 2 ^ n

\* Bit j (0 = least significant, 31 = sign) of the int32 x.
Bit(x, j) ==
    IF j = 31 THEN (IF x < 0 THEN 1 ELSE 0)
    ELSE ((IF x >= 0 THEN x ELSE (x + MaxInt32) + 1) \div Pow2(j)) % 2

Rows == 0..31

\* The number of bit positions in which a and b differ.
TrueHamming(a, b) == Cardinality({j \in Rows : Bit(a, j) # Bit(b, j)})

RECURSIVE TrueDistFrom(_, _, _)
TrueDistFrom(f1, f2, i) ==
    IF i > Len(f1) THEN 0
    ELSE TrueHamming(f1[i], f2[i]) + TrueDistFrom(f1, f2, i + 1)

\* D: the total Hamming distance of two fingerprints of equal length.
TrueDist(f1, f2) == TrueDistFrom(f1, f2, 1)

SameLen == Len(fprint1) = Len(fprint2)

NonEmpty == Len(fprint1) > 0

\* b is the bitwise complement of a at every index.
IsComplement(a, b) ==
    /\ Len(a) = Len(b)
    /\ \A i \in 1..Len(a) : \A j \in Rows : Bit(a[i], j) # Bit(b[i], j)

One == Float(1, 1)

Zero == Float(0, 1)

Returned(r) == ~r.panic /\ r.err = Nil

--------------------------------------------------------------------------
(* Claims *)

\* C1: for equal-length non-empty fingerprints over the whole int32 range,
\* Compare returns no error and the score 1 - D / (len * 32), D being the
\* sum of the true 32-bit Hamming distances of the elements.
C1_CompareIsHammingScore ==
    (op = "Compare" /\ SameLen /\ NonEmpty) =>
        /\ Returned(ret)
        /\ FloatEq(ret.score,
                   Float(Len(fprint1) * 32 - TrueDist(fprint1, fprint2),
                         Len(fprint1) * 32))

\* C2: with fingerprints of different lengths, Compare, Distance and
\* ImageDistance each return ErrLength with score 0, a nil slice and a nil
\* image respectively, and none of them panics.
C2_LengthMismatch ==
    (op \in {"Compare", "Distance", "ImageDistance"} /\ ~SameLen) =>
        /\ ~ret.panic
        /\ ret.err = ErrLength
        /\ op = "Compare" => FloatEq(ret.score, Zero)
        /\ op = "Distance" => ret.dist = NilSlice
        /\ op = "ImageDistance" => ret.im = NilImage

\* ImageDistance was called with a longer first fingerprint (the case in
\* which a missing length test would index out of range).
C2_Witness ==
    /\ op = "ImageDistance"
    /\ Len(fprint1) > Len(fprint2)
    /\ ret.err = ErrLength

\* C3: Compare(a, a) returns no error and the score 1.0 for a fingerprint of
\* any length, the empty one included.
C3_CompareSelfIsOne ==
    (op = "Compare" /\ fprint1 = fprint2) =>
        Returned(ret) /\ FloatEq(ret.score, One)

\* C4: for a non-empty fingerprint, Compare returns the score 0.0 against
\* its bitwise complement and 1.0 against itself.
C4_CompareExtremes ==
    (op = "Compare" /\ NonEmpty) =>
        /\ IsComplement(fprint1, fprint2) => FloatEq(ret.score, Zero)
        /\ fprint1 = fprint2 => FloatEq(ret.score, One)

\* C5: for equal-length non-empty fingerprints the score of Compare lies in
\* [0, 1]: the accumulated distance is neither negative nor above len * 32.
C5_ScoreBounded ==
    (op = "Compare" /\ SameLen /\ NonEmpty) =>
        /\ Returned(ret)
        /\ FloatLe(Zero, ret.score)
        /\ FloatLe(ret.score, One)
        /\ ret.score.den - ret.score.num \in 0..(Len(fprint1) * 32)

\* Compare was called on fingerprints whose XOR has the sign bit set at
\* some index and is zero at none.
C5_Witness ==
    /\ op = "Compare" /\ SameLen /\ NonEmpty
    /\ \E i \in 1..Len(fprint1) : Bit(fprint1[i], 31) # Bit(fprint2[i], 31)
    /\ \A i \in 1..Len(fprint1) : fprint1[i] # fprint2[i]
    /\ Returned(ret)

\* C6: Compare and Distance are symmetric: on equal-length fingerprints the
\* call returns the same value as the call with the arguments swapped.
\* (Same value: for two empty fingerprints both scores are the NaN of C3.)
C6_Symmetric ==
    /\ (op = "Compare" /\ SameLen) =>
           /\ Returned(ret)
           /\ ret.score = Compare(fprint2, fprint1).score
    /\ (op = "Distance" /\ SameLen) =>
           /\ Returned(ret)
           /\ ret.dist = Distance(fprint2, fprint1).dist

\* Compare was called on two different non-empty fingerprints of one length.
C6_Witness ==
    /\ op = "Compare" /\ SameLen /\ NonEmpty
    /\ fprint1 # fprint2
    /\ Returned(ret)

\* Element-wise XOR of two int32 sequences of equal length.
XorSeq(s, t) == [i \in 1..Len(s) |-> Xor32(s[i], t[i])]

\* C7: on equal-length fingerprints Distance returns no error and a
\* sequence of the same length whose element i is the 32-bit XOR of a[i]
\* and b[i]; so Distance(a, a) is all zeros, and Distance(a, b) XOR
\* Distance(b, c) is Distance(a, c).
C7_DistanceIsXor ==
    (op = "Distance" /\ SameLen) =>
        /\ Returned(ret)
        /\ ~ret.dist.nil
        /\ Len(ret.dist.elems) = Len(fprint1)
        /\ \A i \in 1..Len(fprint1) :
              /\ ret.dist.elems[i] \in MinInt32..MaxInt32
              /\ \A j \in Rows :
                    Bit(ret.dist.elems[i], j)
                        = (Bit(fprint1[i], j) + Bit(fprint2[i], j)) % 2
        /\ fprint1 = fprint2 =>
              \A i \in 1..Len(fprint1) : ret.dist.elems[i] = 0
        /\ \A c \in SeqsOfLen(Len(fprint1)) :
              XorSeq(ret.dist.elems, Distance(fprint2, c).dist.elems)
                  = Distance(fprint1, c).dist.elems

\* Distance was called on different non-empty fingerprints of one length
\* and returned a sequence with a negative element.
C7_Witness ==
    /\ op = "Distance" /\ SameLen /\ NonEmpty
    /\ fprint1 # fprint2
    /\ Returned(ret)
    /\ \E i \in 1..Len(fprint1) : ret.dist.elems[i] < 0

C9_BlackIsOne ==
    op = "ToImage" =>
        \A i \in 0..(Len(fprint1) - 1) : \A j \in Rows :
            ret.im.pix[i][j]
                = IF Bit(fprint1[i + 1], j) = 1 THEN Black ELSE White

\* C10: on equal-length fingerprints ImageDistance returns no error and the
\* image ToImage(Distance(a, b)): pixel (i, j) is bright exactly when a[i]
\* and b[i] differ in bit j.
C10_ImageDistance ==
    (op = "ImageDistance" /\ SameLen) =>
        /\ Returned(ret)
        /\ ret.im = ToImage(Distance(fprint1, fprint2).dist.elems)
        /\ ret.im.w = Len(fprint1)
        /\ ret.im.h = 32
        /\ \A i \in 0..(Len(fprint1) - 1) : \A j \in Rows :
              (ret.im.pix[i][j] = White)
                  <=> (Bit(fprint1[i + 1], j) # Bit(fprint2[i + 1], j))

\* ImageDistance was called on different non-empty fingerprints of one
\* length and returned an image.
C10_Witness ==
    /\ op = "ImageDistance" /\ SameLen /\ NonEmpty
    /\ fprint1 # fprint2
    /\ \E i \in 1..Len(fprint1) : fprint1[i] = fprint2[i]
    /\ Returned(ret)
    /\ ~ret.im.nil

====
